---- MODULE Spec2Model ----
(***************************************************************************)
(* Model of Password_Generator.py: the PasswordGenerator window, its       *)
(* in-memory history, the file password_history.json and the CSV export.   *)
(*                                                                         *)
(* A Python str is modelled as a sequence of Unicode code points           *)
(* (naturals), so that json.dump / json.load, the ASCII escaping of the    *)
(* strength labels and the str predicates of check_strength are computed   *)
(* character by character, as the code and its libraries compute them.     *)
(***************************************************************************)
EXTENDS Integers, Sequences, FiniteSets, TLC

(***************************************************************************)
(* Bounds of the model.                                                    *)
(***************************************************************************)
\* the positive password length the length spinbox is set to
MaxLength == 1
\* generations are disabled once the history holds this many entries
MaxHistory == 2
\* the wall clock advances at most this many seconds
MaxClock == 0
\* check_strength inputs: a free part of at most MaxCore characters ...
MaxCore == 4
\* ... followed by at most MaxPad repetitions of one padding character
MaxPad == 12

(***************************************************************************)
(* Generic helpers on sequences.                                           *)
(***************************************************************************)
Range(s) == {s[i] : i \in DOMAIN s}

\* the element of a set of one element; { e(x) : x \in {v} } computes v once
Only(S) == CHOOSE x \in S : TRUE

IsPrefix(s, t) == Len(s) <= Len(t) /\ SubSeq(t, 1, Len(s)) = s

RECURSIVE Concat(_)
\* "".join(parts)
Concat(parts) ==
    IF parts = <<>> THEN <<>> ELSE Head(parts) \o Concat(Tail(parts))

RECURSIVE Join(_, _)
\* sep.join(parts)
Join(sep, parts) ==
    IF parts = <<>> THEN <<>>
    ELSE IF Len(parts) = 1 THEN parts[1]
    ELSE parts[1] \o sep \o Join(sep, Tail(parts))

Reversed(s) == [i \in 1..Len(s) |-> s[Len(s) + 1 - i]]

\* s[-n:]
LastN(s, n) == IF Len(s) <= n THEN s ELSE SubSeq(s, Len(s) - n + 1, Len(s))

Repeat(c, n) == [i \in 1..n |-> c]

(***************************************************************************)
(* Character classes (string.ascii_uppercase, string.ascii_lowercase,      *)
(* string.digits and the symbol literal of lines 102 and 133).             *)
(***************************************************************************)
ascii_uppercase == [i \in 1..26 |-> 64 + i]
ascii_lowercase == [i \in 1..26 |-> 96 + i]
digits == [i \in 1..10 |-> 47 + i]
\* !@#$%^&*()_+-=[]{}|;:,.<>?
symbols == <<33, 64, 35, 36, 37, 94, 38, 42, 40, 41, 95, 43, 45, 61, 91, 93,
             123, 125, 124, 59, 58, 44, 46, 60, 62, 63>>

\* str.islower / str.isupper / str.isdigit of one character, tabulated for
\* ASCII, the characters of every password of the model.
islower(c) == c \in 97..122
isupper(c) == c \in 65..90
isdigit(c) == c \in 48..57

(***************************************************************************)
(* Literals of the program.                                                *)
(***************************************************************************)
\* "🔴 Слабый", "🟡 Средний", "🟢 Сильный"
Weak == <<128308, 32, 1057, 1083, 1072, 1073, 1099, 1081>>
Medium == <<128993, 32, 1057, 1088, 1077, 1076, 1085, 1080, 1081>>
Strong == <<128994, 32, 1057, 1080, 1083, 1100, 1085, 1099, 1081>>
\* "Сложность: " and the initial label text "Сложность: ❓"
LabelPrefix == <<1057, 1083, 1086, 1078, 1085, 1086, 1089, 1090, 1100, 58, 32>>
LabelUnknown == LabelPrefix \o <<10067>>
\* dictionary keys "password", "timestamp", "strength"
K_password == <<112, 97, 115, 115, 119, 111, 114, 100>>
K_timestamp == <<116, 105, 109, 101, 115, 116, 97, 109, 112>>
K_strength == <<115, 116, 114, 101, 110, 103, 116, 104>>
\* " | "
DisplaySep == <<32, 124, 32>>

(***************************************************************************)
(* check_strength (lines 123-144): the score and the label it returns, and *)
(* the foreground colour it gives the strength label.                      *)
(***************************************************************************)
RECURSIVE any_islower(_)
any_islower(password) ==
    IF password = <<>> THEN FALSE
    ELSE islower(Head(password)) \/ any_islower(Tail(password))

RECURSIVE any_isupper(_)
any_isupper(password) ==
    IF password = <<>> THEN FALSE
    ELSE isupper(Head(password)) \/ any_isupper(Tail(password))

RECURSIVE any_isdigit(_)
any_isdigit(password) ==
    IF password = <<>> THEN FALSE
    ELSE isdigit(Head(password)) \/ any_isdigit(Tail(password))

RECURSIVE any_symbol(_)
any_symbol(password) ==
    IF password = <<>> THEN FALSE
    ELSE Head(password) \in Range(symbols) \/ any_symbol(Tail(password))

score_of(password) ==
    LET s1 == IF Len(password) >= 12 THEN 1 ELSE 0
        s2 == IF any_islower(password) THEN s1 + 1 ELSE s1
        s3 == IF any_isupper(password) THEN s2 + 1 ELSE s2
        s4 == IF any_isdigit(password) THEN s3 + 1 ELSE s3
        s5 == IF any_symbol(password) THEN s4 + 1 ELSE s4
    IN  s5

\* check_strength with the Weak threshold one too high
check_strength_weak3(password) ==
    LET score == score_of(password) IN
    IF score <= 3 THEN [label |-> Weak, foreground |-> "red"]
    ELSE IF score <= 4 THEN [label |-> Medium, foreground |-> "orange"]
    ELSE [label |-> Strong, foreground |-> "green"]

check_strength(password) ==
    LET score == score_of(password) IN
    IF score <= 2 THEN [label |-> Weak, foreground |-> "red"]
    ELSE IF score <= 4 THEN [label |-> Medium, foreground |-> "orange"]
    ELSE [label |-> Strong, foreground |-> "green"]

(***************************************************************************)
(* json.dump(self.history, f, indent=2) (line 33): the text written, with  *)
(* the default ensure_ascii escaping of the json module.                   *)
(***************************************************************************)
HexDigits == <<48, 49, 50, 51, 52, 53, 54, 55, 56, 57, 97, 98, 99, 100, 101, 102>>

\* '{0:04x}'.format(n)
Hex4(n) ==
    << HexDigits[((n \div 4096) % 16) + 1], HexDigits[((n \div 256) % 16) + 1],
       HexDigits[((n \div 16) % 16) + 1], HexDigits[(n % 16) + 1] >>

\* \uXXXX
UEscape(n) == <<92, 117>> \o Hex4(n)

\* json.encoder.py_encode_basestring_ascii, one character
EscapeChar(c) ==
    IF c = 34 THEN <<92, 34>>
    ELSE IF c = 92 THEN <<92, 92>>
    ELSE IF c = 10 THEN <<92, 110>>
    ELSE IF c = 13 THEN <<92, 114>>
    ELSE IF c = 9 THEN <<92, 116>>
    ELSE IF c = 12 THEN <<92, 102>>
    ELSE IF c = 8 THEN <<92, 98>>
    ELSE IF c \in 32..126 THEN <<c>>
    ELSE IF c < 65536 THEN UEscape(c)
    ELSE LET n == c - 65536
         IN  UEscape(55296 + ((n \div 1024) % 1024)) \o UEscape(56320 + (n % 1024))

EncodeString(s) ==
    <<34>> \o Concat([i \in 1..Len(s) |-> EscapeChar(s[i])]) \o <<34>>

\* one dictionary of the history, at indentation level 1 of indent=2
EncodeEntry(e) ==
    LET item(k, v) == <<32, 32, 32, 32>> \o EncodeString(k) \o <<58, 32>> \o EncodeString(v)
    IN  <<123, 10>>
        \o Join(<<44, 10>>, << item(K_password, e.password),
                               item(K_timestamp, e.timestamp),
                               item(K_strength, e.strength) >>)
        \o <<10, 32, 32, 125>>

json_dump(hist) ==
    IF hist = <<>> THEN <<91, 93>>
    ELSE <<91, 10, 32, 32>>
         \o Join(<<44, 10, 32, 32>>, [i \in 1..Len(hist) |-> EncodeEntry(hist[i])])
         \o <<10, 93>>

(***************************************************************************)
(* json.load(f) (line 27): the decoder of the json module on the text of   *)
(* the file, for the JSON grammar of arrays, objects and strings.  A       *)
(* result is [ok, val, pos]: ok is FALSE where the decoder raises          *)
(* JSONDecodeError; values are tagged with their JSON type.                *)
(***************************************************************************)
Fail == [ok |-> FALSE, val |-> <<>>, pos |-> 0]

IsWhitespace(c) == c \in {32, 9, 10, 13}

RECURSIVE SkipWhitespace(_, _)
SkipWhitespace(text, pos) ==
    IF pos <= Len(text) /\ IsWhitespace(text[pos])
    THEN SkipWhitespace(text, pos + 1) ELSE pos

HexValue(c) ==
    IF c \in 48..57 THEN c - 48
    ELSE IF c \in 97..102 THEN c - 87
    ELSE IF c \in 65..70 THEN c - 55
    ELSE -1

\* json.decoder._decode_uXXXX: the four hex digits at pos, or -1
DecodeUXXXX(text, pos) ==
    IF pos + 3 > Len(text) THEN -1
    ELSE LET d(i) == HexValue(text[pos + i])
         IN  IF d(0) < 0 \/ d(1) < 0 \/ d(2) < 0 \/ d(3) < 0 THEN -1
             ELSE d(0) * 4096 + d(1) * 256 + d(2) * 16 + d(3)

\* the BACKSLASH table of json.decoder
Backslash(c) ==
    IF c = 34 THEN 34
    ELSE IF c = 92 THEN 92
    ELSE IF c = 47 THEN 47
    ELSE IF c = 98 THEN 8
    ELSE IF c = 102 THEN 12
    ELSE IF c = 110 THEN 10
    ELSE IF c = 114 THEN 13
    ELSE IF c = 116 THEN 9
    ELSE -1

RECURSIVE ScanString(_, _, _)

\* the \uXXXX escape at pos, uni its value and uni2 the value of the \uXXXX
\* right after it (-1 if there is none): a surrogate pair is one character
ScanUnicode(text, pos, acc, uni, paired, uni2) ==
    IF uni < 0 THEN Fail
    ELSE IF paired /\ uni2 < 0 THEN Fail
    ELSE IF uni2 \in 56320..57343
    THEN ScanString(text, pos + 12,
                    Append(acc, 65536 + (uni - 55296) * 1024 + (uni2 - 56320)))
    ELSE ScanString(text, pos + 6, Append(acc, uni))

\* json.decoder.py_scanstring, pos just after the opening quote
ScanString(text, pos, acc) ==
    IF pos > Len(text) THEN Fail
    ELSE IF text[pos] = 34
    THEN [ok |-> TRUE, val |-> [t |-> "str", v |-> acc], pos |-> pos + 1]
    ELSE IF text[pos] < 32 THEN Fail
    ELSE IF text[pos] # 92
    THEN Only({ ScanString(text, next, chars)
                : next \in {pos + 1}, chars \in {Append(acc, text[pos])} })
    ELSE IF pos + 1 > Len(text) THEN Fail
    ELSE IF text[pos + 1] # 117
    THEN IF Backslash(text[pos + 1]) < 0 THEN Fail
         ELSE Only({ ScanString(text, next, chars)
                     : next \in {pos + 2},
                       chars \in {Append(acc, Backslash(text[pos + 1]))} })
    ELSE Only({ Only({ Only({ ScanUnicode(text, at, chars, uni, paired, uni2)
                             : uni2 \in {IF paired THEN DecodeUXXXX(text, at + 8) ELSE -1} })
                       : paired \in {((uni \in (55296..56319)) /\ (at + 7 <= Len(text))
                                      /\ (text[at + 6] = 92) /\ (text[at + 7] = 117))} })
                : uni \in {DecodeUXXXX(text, pos + 2)}, at \in {pos}, chars \in {acc} })

RECURSIVE ScanOnce(_, _)
RECURSIVE ArrayItems(_, _, _)
RECURSIVE ObjectItems(_, _, _)

\* json.scanner.py_make_scanner._scan_once
ScanOnce(text, pos) ==
    IF pos > Len(text) THEN Fail
    ELSE IF text[pos] = 34 THEN ScanString(text, pos + 1, <<>>)
    ELSE IF text[pos] = 123
    THEN Only({ IF p <= Len(text) /\ text[p] = 125
                THEN [ok |-> TRUE, val |-> [t |-> "object", v |-> <<>>], pos |-> p + 1]
                ELSE ObjectItems(text, p, <<>>)
                : p \in {SkipWhitespace(text, pos + 1)} })
    ELSE IF text[pos] = 91
    THEN Only({ IF p <= Len(text) /\ text[p] = 93
                THEN [ok |-> TRUE, val |-> [t |-> "array", v |-> <<>>], pos |-> p + 1]
                ELSE ArrayItems(text, p, <<>>)
                : p \in {SkipWhitespace(text, pos + 1)} })
    ELSE Fail

\* after the element r of an array, p at the next character that is not
\* whitespace
ArrayAfterItem(text, r, p, acc) ==
    IF p > Len(text) THEN Fail
    ELSE IF text[p] = 93
    THEN [ok |-> TRUE, val |-> [t |-> "array", v |-> Append(acc, r.val)], pos |-> p + 1]
    ELSE IF text[p] = 44
    THEN Only({ ArrayItems(text, next, items)
                : next \in {SkipWhitespace(text, p + 1)}, items \in {Append(acc, r.val)} })
    ELSE Fail

\* json.decoder.JSONArray, pos at the next element
ArrayItems(text, pos, acc) ==
    Only({ IF ~r.ok THEN Fail
           ELSE Only({ ArrayAfterItem(text, r, p, acc)
                       : p \in {SkipWhitespace(text, r.pos)} })
           : r \in {ScanOnce(text, pos)} })

\* after the pair of key k and value r of an object, p at the next character
\* that is not whitespace
ObjectAfterItem(text, k, r, p, acc) ==
    IF p > Len(text) THEN Fail
    ELSE IF text[p] = 125
    THEN [ok |-> TRUE, val |-> [t |-> "object", v |-> Append(acc, <<k.val.v, r.val>>)],
          pos |-> p + 1]
    ELSE IF text[p] = 44
    THEN Only({ ObjectItems(text, next, pairs)
                : next \in {SkipWhitespace(text, p + 1)},
                  pairs \in {Append(acc, <<k.val.v, r.val>>)} })
    ELSE Fail

\* after the key k of an object, c at the next character that is not
\* whitespace
ObjectAfterKey(text, k, c, acc) ==
    IF c > Len(text) \/ text[c] # 58 THEN Fail
    ELSE Only({ IF ~r.ok THEN Fail
                ELSE Only({ ObjectAfterItem(text, k, r, p, acc)
                            : p \in {SkipWhitespace(text, r.pos)} })
                : r \in {ScanOnce(text, SkipWhitespace(text, c + 1))} })

\* json.decoder.JSONObject, pos at the opening quote of the next key
ObjectItems(text, pos, acc) ==
    IF pos > Len(text) \/ text[pos] # 34 THEN Fail
    ELSE Only({ IF ~k.ok THEN Fail
                ELSE Only({ ObjectAfterKey(text, k, c, acc)
                            : c \in {SkipWhitespace(text, k.pos)} })
                : k \in {ScanString(text, pos + 1, <<>>)} })

\* json.decoder.JSONDecoder.decode: one value, then only whitespace
json_loads(text) ==
    Only({ IF ~r.ok THEN Fail
           ELSE IF SkipWhitespace(text, r.pos) # Len(text) + 1 THEN Fail
           ELSE r
           : r \in {ScanOnce(text, SkipWhitespace(text, 1))} })

\* the dictionary of one history entry, from the pairs of a JSON object
EntryOf(obj) ==
    [password |-> obj.v[1][2].v, timestamp |-> obj.v[2][2].v, strength |-> obj.v[3][2].v]

\* a decoded value that is a list of dictionaries with the three keys
IsHistoryValue(val) ==
    /\ val.t = "array"
    /\ \A i \in 1..Len(val.v) :
         /\ val.v[i].t = "object"
         /\ Len(val.v[i].v) = 3
         /\ val.v[i].v[1][1] = K_password
         /\ val.v[i].v[2][1] = K_timestamp
         /\ val.v[i].v[3][1] = K_strength
         /\ \A j \in 1..3 : val.v[i].v[j][2].t = "str"

HistoryOf(val) == [i \in 1..Len(val.v) |-> EntryOf(val.v[i])]

(***************************************************************************)
(* datetime.now().strftime("%Y-%m-%d %H:%M:%S") (line 117).  The clock is  *)
(* the number of seconds since 2026-11-01 00:00:00, within that day.       *)
(***************************************************************************)
TwoDigits(n) == <<48 + (n \div 10), 48 + (n % 10)>>

strftime(t) ==
    <<50, 48, 50, 54, 45, 49, 49, 45, 48, 49, 32>>
    \o TwoDigits((t \div 3600) % 24) \o <<58>>
    \o TwoDigits((t \div 60) % 60) \o <<58>>
    \o TwoDigits(t % 60)

(***************************************************************************)
(* pd.DataFrame(self.history).to_csv(filename, index=False) (lines         *)
(* 155-156): the text of the exported file.  The columns of the frame are  *)
(* the keys of the dictionaries, so a frame built from the empty list has  *)
(* no column and its header line is empty.  Fields are quoted as the csv   *)
(* module quotes them under QUOTE_MINIMAL.                                 *)
(***************************************************************************)
NeedsQuote(field) == \E i \in 1..Len(field) : field[i] \in {44, 34, 13, 10}

CsvField(field) ==
    IF NeedsQuote(field)
    THEN <<34>> \o Concat([i \in 1..Len(field) |->
                            IF field[i] = 34 THEN <<34, 34>> ELSE <<field[i]>>]) \o <<34>>
    ELSE field

CsvRow(fields) == Join(<<44>>, [i \in 1..Len(fields) |-> CsvField(fields[i])]) \o <<10>>

DataFrameColumns(hist) ==
    IF hist = <<>> THEN <<>> ELSE <<K_password, K_timestamp, K_strength>>

to_csv(hist) ==
    CsvRow(DataFrameColumns(hist))
    \o Concat([i \in 1..Len(hist) |->
                CsvRow(<<hist[i].password, hist[i].timestamp, hist[i].strength>>)])

(***************************************************************************)
(* The state of the program and of the files it reads and writes.          *)
(***************************************************************************)
VARIABLES
    pc,              \* "init": process not started; "running": in mainloop;
                     \* "crashed": __init__ raised and the process ended
    history,         \* self.history
    file,            \* password_history.json: [exists, text]
    password_entry,  \* text of self.password_entry
    strength_label,  \* self.strength_label: [text, foreground]
    history_list,    \* lines of self.history_list
    copied,          \* what the last handler gave pyperclip.copy, <<>> if nothing
    messagebox,      \* the dialog the last handler showed, "none" if none
    raised,          \* the exception the last handler let escape, "" if none
    current_theme,   \* self.current_theme
    exported,        \* the file the last handler wrote with to_csv: [exists,
                     \* text], NoFile if it wrote none
    clock            \* wall clock, seconds

vars == <<pc, history, file, password_entry, strength_label, history_list,
          copied, messagebox, raised, current_theme, exported, clock>>

NoFile == [exists |-> FALSE, text |-> <<>>]

FileWith(text) == [exists |-> TRUE, text |-> text]

\* the lines update_history_display puts in the listbox (lines 159-162)
update_history_display(hist) ==
    LET shown == Reversed(LastN(hist, 10))
    IN  [i \in 1..Len(shown) |->
            shown[i].timestamp \o DisplaySep \o shown[i].password
            \o DisplaySep \o shown[i].strength]

(***************************************************************************)
(* Initial states: the process has not started; password_history.json is   *)
(* absent, holds a history saved by an earlier run, or holds text that is  *)
(* not JSON (an earlier write that stopped early).                         *)
(***************************************************************************)
\* an entry of an earlier run whose password (a"\,b) needs escaping
OldEntry ==
    [password |-> <<97, 34, 92, 44, 98>>, timestamp |-> strftime(0),
     strength |-> check_strength(<<97, 34, 92, 44, 98>>).label]

InitialFiles ==
    { NoFile,
      FileWith(json_dump(<<>>)),
      FileWith(json_dump(<<OldEntry>>)),
      FileWith(<<>>),
      FileWith(SubSeq(json_dump(<<OldEntry>>), 1, 20)) }

\* the memory of a process that is not running
NotStarted ==
    /\ history = <<>>
    /\ password_entry = <<>>
    /\ strength_label = [text |-> <<>>, foreground |-> ""]
    /\ history_list = <<>>
    /\ messagebox = "none"
    /\ raised = ""
    /\ current_theme = ""

Init ==
    /\ pc = "init"
    /\ NotStarted
    /\ file \in InitialFiles
    /\ copied = <<>>
    /\ exported = NoFile
    /\ clock = 0

(***************************************************************************)
(* load_history (lines 24-29).  Only FileNotFoundError is caught: an       *)
(* OSError of open() on an existing file and the JSONDecodeError of        *)
(* json.load propagate to the caller.  A decoded value that is not a list  *)
(* of entries makes update_history_display raise at the end of             *)
(* create_widgets (lines 86, 161-162).                                     *)
(***************************************************************************)
load_history(f, open_error) ==
    IF ~f.exists THEN [raised |-> "", value |-> <<>>]
    ELSE IF open_error THEN [raised |-> "OSError", value |-> <<>>]
    ELSE LET r == json_loads(f.text) IN
         IF ~r.ok THEN [raised |-> "JSONDecodeError", value |-> <<>>]
         ELSE IF ~IsHistoryValue(r.val) THEN [raised |-> "TypeError", value |-> <<>>]
         ELSE [raised |-> "", value |-> HistoryOf(r.val)]

(***************************************************************************)
(* __init__ (lines 13-22) with create_widgets (lines 35-86), run by the    *)
(* main block (lines 164-166).  An exception of load_history ends the      *)
(* process before the window is built.                                     *)
(***************************************************************************)
PasswordGenerator_init(open_error) ==
    /\ pc = "init"
    /\ LET loaded == load_history(file, open_error) IN
       IF loaded.raised # ""
       THEN /\ pc' = "crashed"
            /\ raised' = loaded.raised
            /\ UNCHANGED <<history, password_entry, strength_label, history_list,
                           messagebox, current_theme>>
       ELSE /\ pc' = "running"
            /\ history' = loaded.value
            /\ current_theme' = "clearlooks"
            /\ password_entry' = <<>>
            /\ strength_label' = [text |-> LabelUnknown, foreground |-> ""]
            /\ history_list' = update_history_display(loaded.value)
            /\ messagebox' = "none"
            /\ raised' = ""
    /\ copied' = <<>>
    /\ exported' = NoFile
    /\ UNCHANGED <<file, clock>>

(***************************************************************************)
(* root.mainloop() returns (line 167) when the window is closed: the       *)
(* process ends and its memory is gone; the files stay.                    *)
(***************************************************************************)
mainloop_exit ==
    /\ pc = "running"
    /\ pc' = "init"
    /\ history' = <<>>
    /\ password_entry' = <<>>
    /\ strength_label' = [text |-> <<>>, foreground |-> ""]
    /\ history_list' = <<>>
    /\ messagebox' = "none"
    /\ raised' = ""
    /\ current_theme' = ""
    /\ copied' = <<>>
    /\ exported' = NoFile
    /\ UNCHANGED <<file, clock>>

(***************************************************************************)
(* copy_to_clipboard (lines 146-150).                                      *)
(***************************************************************************)
copy_to_clipboard ==
    /\ pc = "running"
    /\ IF password_entry # <<>>
       THEN /\ copied' = password_entry
            /\ messagebox' = "showinfo"
       ELSE /\ copied' = <<>>
            /\ messagebox' = "none"
    /\ raised' = ""
    /\ exported' = NoFile
    /\ UNCHANGED <<pc, history, file, password_entry, strength_label,
                   history_list, current_theme, clock>>

(***************************************************************************)
(* export_history (lines 152-157).  filename is what the save dialog       *)
(* returns: "" when the user cancels.                                      *)
(***************************************************************************)
Filenames == {"", "history.csv"}

export_history(filename) ==
    /\ pc = "running"
    /\ IF filename # ""
       THEN /\ exported' = FileWith(to_csv(history))
            /\ messagebox' = "showinfo"
       ELSE /\ exported' = NoFile
            /\ messagebox' = "none"
    /\ raised' = ""
    /\ copied' = <<>>
    /\ UNCHANGED <<pc, history, file, password_entry, strength_label,
                   history_list, current_theme, clock>>

(***************************************************************************)
(* save_history (lines 31-33).  open(..., "w") truncates the file, then    *)
(* json.dump writes the text.  io is what the file system does: the whole  *)
(* text is written ("saved"), or a write raises when only the first cut    *)
(* characters of the text reached the file ("write_failed").  Nothing      *)
(* catches the OSError.                                                    *)
(***************************************************************************)
IoOutcomes == {"saved", "write_failed"}

\* where an interrupted write stops in the model: before the first character
Cuts(text) == {0}

\* save_history opening the file in append mode
save_history_append(hist, f, io, cut) ==
    IF io = "write_failed" THEN FileWith(f.text \o SubSeq(json_dump(hist), 1, cut))
    ELSE FileWith(f.text \o json_dump(hist))

save_history(hist, f, io, cut) ==
    IF io = "write_failed" THEN FileWith(SubSeq(json_dump(hist), 1, cut))
    ELSE FileWith(json_dump(hist))

(***************************************************************************)
(* generate_password (lines 92-121).  The values of the Tk variables the   *)
(* user set before clicking (the four check boxes and the length spinbox,  *)
(* which accepts any typed integer) are the inputs of the handler.         *)
(***************************************************************************)
\* the lengths tried: a negative one, zero and a positive one
Lengths == {-1, 0, MaxLength}

\* build_chars testing the upper-case check box where it adds the digits
build_chars_digits_on_upper(upper, lower, digs, syms) ==
    (IF upper THEN ascii_uppercase ELSE <<>>)
    \o (IF lower THEN ascii_lowercase ELSE <<>>)
    \o (IF upper THEN digits ELSE <<>>)
    \o (IF syms THEN symbols ELSE <<>>)

\* lines 94-102
build_chars(upper, lower, digs, syms) ==
    (IF upper THEN ascii_uppercase ELSE <<>>)
    \o (IF lower THEN ascii_lowercase ELSE <<>>)
    \o (IF digs THEN digits ELSE <<>>)
    \o (IF syms THEN symbols ELSE <<>>)

\* the position of chars that random.choice returns in the model: the last
Draws(chars) == {Len(chars)}

\* line 108; range(length) is empty when length <= 0
random_password(chars, length, pick) == [i \in 1..length |-> chars[pick[i]]]

\* append_entry skipping an entry the history already holds
append_entry_dedup(hist, password, now, strength) ==
    LET entry == [password |-> password, timestamp |-> strftime(now),
                  strength |-> strength]
    IN  IF entry \in Range(hist) THEN hist ELSE Append(hist, entry)

\* lines 115-119
append_entry(hist, password, now, strength) ==
    Append(hist, [password |-> password, timestamp |-> strftime(now),
                  strength |-> strength])

\* warn_no_chars after the password entry was cleared (line 109 moved up)
warn_no_chars_after_delete ==
    /\ messagebox' = "showwarning"
    /\ raised' = ""
    /\ copied' = <<>>
    /\ exported' = NoFile
    /\ password_entry' = <<>>
    /\ UNCHANGED <<pc, history, file, strength_label,
                   history_list, current_theme, clock>>

\* lines 104-106: the warning, and nothing else
warn_no_chars ==
    /\ messagebox' = "showwarning"
    /\ raised' = ""
    /\ copied' = <<>>
    /\ exported' = NoFile
    /\ UNCHANGED <<pc, history, file, password_entry, strength_label,
                   history_list, current_theme, clock>>

\* lines 109-113: the password and its strength are shown
show_password(password) ==
    /\ password_entry' = password
    /\ strength_label' = [text |-> LabelPrefix \o check_strength(password).label,
                          foreground |-> check_strength(password).foreground]

\* lines 115-121: the entry is appended, the history saved and the list
\* refreshed; an exception of save_history ends the handler before the refresh
record_generation(password, tick, io) ==
    /\ clock' = clock + tick
    /\ history' = append_entry(history, password, clock', check_strength(password).label)
    /\ raised' = IF io = "saved" THEN "" ELSE "OSError"
    /\ \E cut \in IF io = "write_failed" THEN Cuts(json_dump(history')) ELSE {0} :
          file' = save_history(history', file, io, cut)
    /\ history_list' = IF io = "saved" THEN update_history_display(history')
                       ELSE history_list
    /\ messagebox' = "none"
    /\ copied' = <<>>
    /\ exported' = NoFile
    /\ UNCHANGED <<pc, current_theme>>

generate_password(upper, lower, digs, syms, length) ==
    /\ pc = "running"
    /\ IF build_chars(upper, lower, digs, syms) = <<>>
       THEN warn_no_chars
       ELSE /\ Len(history) < MaxHistory
            /\ \E pick \in [1..length -> Draws(build_chars(upper, lower, digs, syms))] :
                 show_password(random_password(build_chars(upper, lower, digs, syms),
                                               length, pick))
            /\ \E tick \in 0..1, io \in IoOutcomes :
                 /\ clock + tick <= MaxClock
                 /\ record_generation(password_entry', tick, io)

(***************************************************************************)
(* The program: start-up, then the handlers the user triggers one at a     *)
(* time, until the window is closed.  change_theme (lines 88-90) is bound  *)
(* to no widget and called nowhere, so it is no step of the program and    *)
(* current_theme keeps the value line 20 gives it.                         *)
(***************************************************************************)
Next ==
    \/ \E open_error \in BOOLEAN : PasswordGenerator_init(open_error)
    \/ \E upper \in BOOLEAN, lower \in BOOLEAN, digs \in BOOLEAN, syms \in BOOLEAN,
          length \in Lengths : generate_password(upper, lower, digs, syms, length)
    \/ copy_to_clipboard
    \/ \E filename \in Filenames : export_history(filename)
    \/ mainloop_exit

Spec == Init /\ [][Next]_vars

(***************************************************************************)
(* check_strength on its own: the window is running, the password entry    *)
(* holds any of the sample strings, and lines 112-113 score it and show    *)
(* the label.                                                              *)
(***************************************************************************)
\* A, a, 1, !, and ~ (which is in no class)
SampleChars == {65, 97, 49, 33, 126}

RECURSIVE SeqsUpTo(_, _)
\* the sequences over S of length at most n
SeqsUpTo(S, n) ==
    IF n = 0 THEN {<<>>}
    ELSE LET shorter == SeqsUpTo(S, n - 1)
         IN  shorter \cup {Append(s, c) : s \in {x \in shorter : Len(x) = n - 1}, c \in S}

\* "Ab3!defghij", "Ab3!defghijk", "abcdefgh"
Example11 == <<65, 98, 51, 33, 100, 101, 102, 103, 104, 105, 106>>
Example12 == <<65, 98, 51, 33, 100, 101, 102, 103, 104, 105, 106, 107>>
Example8 == <<97, 98, 99, 100, 101, 102, 103, 104>>

\* a free part followed by a run of spaces, and the three examples
StrengthInputs ==
    {core \o Repeat(32, n) : core \in SeqsUpTo(SampleChars, MaxCore), n \in 0..MaxPad}
    \cup {Example11, Example12, Example8}

InitStrength ==
    /\ pc = "running"
    /\ history = <<>>
    /\ file = NoFile
    /\ password_entry \in StrengthInputs
    /\ strength_label = [text |-> LabelUnknown, foreground |-> ""]
    /\ history_list = <<>>
    /\ copied = <<>>
    /\ messagebox = "none"
    /\ raised = ""
    /\ current_theme = "clearlooks"
    /\ exported = NoFile
    /\ clock = 0

\* lines 112-113 on the text of the password entry
show_strength ==
    /\ pc = "running"
    /\ strength_label.text = LabelUnknown
    /\ LET strength == check_strength(password_entry)
       IN  strength_label' = [text |-> LabelPrefix \o strength.label,
                              foreground |-> strength.foreground]
    /\ UNCHANGED <<pc, history, file, password_entry, history_list, copied,
                   messagebox, raised, current_theme, exported, clock>>

NextStrength == show_strength

SpecStrength == InitStrength /\ [][NextStrength]_vars

(***************************************************************************)
(* Properties.                                                             *)
(***************************************************************************)
\* some check box is ticked
SomeFlag(upper, lower, digs, syms) == upper \/ lower \/ digs \/ syms

\* c is a character of a class whose check box is ticked
InSelectedClass(c, upper, lower, digs, syms) ==
    \/ upper /\ c \in 65..90
    \/ lower /\ c \in 97..122
    \/ digs /\ c \in 48..57
    \/ syms /\ c \in Range(symbols)

C2_NoClassNoChange ==
    [][\A length \in Lengths :
          generate_password(FALSE, FALSE, FALSE, FALSE, length)
          => /\ messagebox' = "showwarning"
             /\ UNCHANGED <<history, file, password_entry, strength_label>>]_vars

\* the warning is on screen over a password generated before
C2_Witness ==
    /\ pc = "running"
    /\ messagebox = "showwarning"
    /\ password_entry # <<>>
    /\ history # <<>>

\* C3 (as claimed): generate_password with a class selected and length < 1
\* is refused: the warning is shown, no password is produced, nothing is
\* appended to the history or written to the file.
C3_LengthBelowOneRefused ==
    [][\A upper \in BOOLEAN, lower \in BOOLEAN, digs \in BOOLEAN, syms \in BOOLEAN,
          length \in Lengths :
            (length < 1 /\ SomeFlag(upper, lower, digs, syms)
             /\ generate_password(upper, lower, digs, syms, length))
            => /\ messagebox' = "showwarning"
               /\ UNCHANGED <<history, file, password_entry>>]_vars

\* the criteria of the score that a password meets
Criteria(password) ==
    {k \in 1..5 :
        \/ k = 1 /\ Len(password) >= 12
        \/ k = 2 /\ \E i \in 1..Len(password) : password[i] \in 97..122
        \/ k = 3 /\ \E i \in 1..Len(password) : password[i] \in 65..90
        \/ k = 4 /\ \E i \in 1..Len(password) : password[i] \in 48..57
        \/ k = 5 /\ \E i \in 1..Len(password) : password[i] \in Range(symbols)}

LabelOfScore(score) ==
    IF score \in 0..2 THEN Weak ELSE IF score \in 3..4 THEN Medium ELSE Strong

\* C4: the label shown for a password is the one of its score, the number of
\* criteria it meets: 0..2 Weak, 3..4 Medium, 5 Strong; so the empty string
\* and "abcdefgh" are Weak, "Ab3!defghij" Medium, "Ab3!defghijk" Strong.
C4_LabelOfScore ==
    strength_label.text # LabelUnknown
    => /\ strength_label.text
            = LabelPrefix \o LabelOfScore(Cardinality(Criteria(password_entry)))
       /\ password_entry \in {<<>>, Example8} => strength_label.text = LabelPrefix \o Weak
       /\ password_entry = Example11 => strength_label.text = LabelPrefix \o Medium
       /\ password_entry = Example12 => strength_label.text = LabelPrefix \o Strong

\* a 12-character password of three classes was scored Medium
C4_Witness ==
    /\ Len(password_entry) = 12
    /\ Cardinality(Criteria(password_entry)) = 4
    /\ strength_label.text = LabelPrefix \o Medium

\* C5: after every generation that saved, load_history of the file returns
\* the in-memory history: same entries, same order, same fields.
C5_RoundTrip ==
    [][(pc = "running" /\ pc' = "running" /\ history' # history /\ raised' = "")
       => load_history(file', FALSE) = [raised |-> "", value |-> history']]_vars

\* a generation saved a history whose first entry needs escaping
C5_Witness ==
    /\ pc = "running"
    /\ raised = ""
    /\ Len(history) = 2
    /\ history[1] = OldEntry
    /\ password_entry = history[2].password
    /\ file.exists
    /\ HistoryOf(json_loads(file.text).val) = history

\* C6: while the program runs the history only grows at its end: the history
\* before a step is a prefix of the history after it, and a generation that
\* passes the check of the classes adds exactly one entry, duplicate or not.
C6_AppendOnly ==
    [][(pc = "running" /\ pc' = "running")
       => /\ IsPrefix(history, history')
          /\ (\E upper \in BOOLEAN, lower \in BOOLEAN, digs \in BOOLEAN,
                 syms \in BOOLEAN, length \in Lengths :
                   /\ SomeFlag(upper, lower, digs, syms)
                   /\ generate_password(upper, lower, digs, syms, length))
             => Len(history') = Len(history) + 1]_vars

\* the history holds the same entry twice
C6_Witness ==
    /\ pc = "running"
    /\ Len(history) = 2
    /\ history[1] = history[2]

\* C7 (as claimed): start-up with a history file that is missing or is not
\* JSON succeeds, with the empty history.
C7_StartsEmpty ==
    [][(pc = "init" /\ pc' # "init"
        /\ (~file.exists \/ ~json_loads(file.text).ok))
       => (pc' = "running" /\ history' = <<>>)]_vars

\* C8 (as claimed): whatever a step of the running program does to the
\* history file, load_history then returns what it returned before the step
\* or the new in-memory history.
C8_AtomicSave ==
    [][(pc = "running" /\ pc' = "running")
       => load_history(file', FALSE)
            \in {load_history(file, FALSE), [raised |-> "", value |-> history']}]_vars

\* C9 (as claimed): when the save of a generation raises, the append is
\* rolled back or a dialog tells the user; the password stays in the entry.
C9_FailedSaveHandled ==
    [][(pc = "running" /\ pc' = "running" /\ raised' = "OSError")
       => /\ (history' = history \/ messagebox' # "none")
          /\ password_entry' = history'[Len(history')].password]_vars

RECURSIVE CsvScan(_, _, _, _, _, _)
\* the rows of fields a CSV reader gets from text
CsvScan(text, pos, quoted, field, row, rows) ==
    IF pos > Len(text) THEN rows
    ELSE LET c == text[pos] IN
    IF quoted
    THEN IF c # 34 THEN CsvScan(text, pos + 1, TRUE, Append(field, c), row, rows)
         ELSE IF pos < Len(text) /\ text[pos + 1] = 34
         THEN CsvScan(text, pos + 2, TRUE, Append(field, 34), row, rows)
         ELSE CsvScan(text, pos + 1, FALSE, field, row, rows)
    ELSE IF c = 34 THEN CsvScan(text, pos + 1, TRUE, field, row, rows)
    ELSE IF c = 44 THEN CsvScan(text, pos + 1, FALSE, <<>>, Append(row, field), rows)
    ELSE IF c = 10
    THEN CsvScan(text, pos + 1, FALSE, <<>>, <<>>, Append(rows, Append(row, field)))
    ELSE CsvScan(text, pos + 1, FALSE, Append(field, c), row, rows)

\* C10 (as claimed): export_history to a chosen file writes the header row
\* password,timestamp,strength and one row per entry, oldest first, K + 1
\* lines for K entries (K = 0 included), and changes neither the history
\* nor the history file.
C10_ExportRows ==
    [][\A filename \in Filenames \ {""} :
          export_history(filename)
          => /\ CsvScan(exported'.text, 1, FALSE, <<>>, <<>>, <<>>)
                  = <<<<K_password, K_timestamp, K_strength>>>>
                    \o [i \in 1..Len(history) |->
                          <<history[i].password, history[i].timestamp,
                            history[i].strength>>]
             /\ UNCHANGED <<history, file>>]_vars

====
